---- MODULE Spec2Model ----
(***************************************************************************)
(* A model of aiogram's BaseBot (aiogram/bot/base.py): the temporary       *)
(* session list, the chunked file download, the pooled Transport request,  *)
(* the file sender and the endpoint methods built on them.                 *)
(***************************************************************************)
EXTENDS Integers, Sequences, FiniteSets

VARIABLES
    temp_sessions,      \* self._temp_sessions: the tracked temp sessions, in order
    handles,            \* every temp session ever created: closed flag, close() calls, owner
    session_closed,     \* self.session.closed
    connections_limit,  \* the limit of self.session's connector
    in_use,             \* connections in use per session (0: self.session, h: temp session h)
    destroyed,          \* __del__ has run
    dl,                 \* the download_file calls
    req,                \* the Transport requests (connection level)
    api                 \* the endpoint method call at hand (message level)

vars == <<temp_sessions, handles, session_closed, connections_limit, in_use, destroyed, dl,
          req, api>>

----------------------------------------------------------------------------
\* Bounds of the model.
MaxDownloads == 2
MaxUserSessions == 1
MaxRequests == 2
MaxBody == 2
MaxChunkSize == 2
MaxConnectionsLimit == 2

Downloads == 1..MaxDownloads
Requests == 1..MaxRequests
ByteVals == {0, 1}
User == 0          \* owner of a temp session created by a direct create_temp_session call
PoolSession == 0   \* self.session, as a key of in_use

RECURSIVE SeqsUpTo(_)
SeqsUpTo(n) ==
    IF n = 0 THEN {<< >>}
    ELSE LET shorter == SeqsUpTo(n - 1)
         IN shorter \cup {Append(s, b) : s \in {t \in shorter : Len(t) = n - 1}, b \in ByteVals}

Bodies == SeqsUpTo(MaxBody)

RECURSIVE Concat(_)
Concat(chunks) ==
    IF chunks = << >> THEN << >> ELSE Head(chunks) \o Concat(Tail(chunks))

SeqRange(s) == {s[i] : i \in 1..Len(s)}

----------------------------------------------------------------------------
\* The destination sink: io.IOBase with a write buffer.

FreshSink == [data |-> << >>, pending |-> << >>, pos |-> 0]

\* bytes written at offset `at` of data, overwriting and extending it
Overwrite(data, at, bytes) ==
    LET n == IF at + Len(bytes) > Len(data) THEN at + Len(bytes) ELSE Len(data)
    IN [i \in 1..n |->
            IF i > at /\ i <= at + Len(bytes) THEN bytes[i - at]
            ELSE IF i <= Len(data) THEN data[i] ELSE 0]

SinkWrite(s, chunk) ==
    [s EXCEPT !.pending = s.pending \o chunk, !.pos = s.pos + Len(chunk)]

SinkFlush(s) ==
    [s EXCEPT !.data = Overwrite(s.data, s.pos - Len(s.pending), s.pending),
              !.pending = << >>]

SinkSeek(s, p) == [SinkFlush(s) EXCEPT !.pos = p]

----------------------------------------------------------------------------
\* Temp sessions.

NewHandle == Len(handles) + 1

\* session.close(): one more close() call on h, which is closed afterwards
CloseSession(hs, h) ==
    [hs EXCEPT ![h].closed = TRUE, ![h].closes = hs[h].closes + 1]

RemoveFirst(s, x) ==
    LET i == CHOOSE k \in 1..Len(s) : s[k] = x /\ \A j \in 1..(k - 1) : s[j] # x
    IN SubSeq(s, 1, i - 1) \o SubSeq(s, i + 1, Len(s))

\* destroy_temp_session(session): the handles and the tracked list afterwards
DestroyCloseUnguarded(hs, h) == CloseSession(hs, h)

DestroyUntrackLast(ts, h) == IF h \in SeqRange(ts) THEN SubSeq(ts, 1, Len(ts) - 1) ELSE ts

DestroyClose(hs, h) == IF ~hs[h].closed THEN CloseSession(hs, h) ELSE hs

DestroyUntrack(ts, h) == IF h \in SeqRange(ts) THEN RemoveFirst(ts, h) ELSE ts

RECURSIVE CloseAll(_, _)
CloseAll(hs, ts) ==
    IF ts = << >> THEN hs
    ELSE CloseAll(IF ~hs[Head(ts)].closed THEN CloseSession(hs, Head(ts)) ELSE hs, Tail(ts))

----------------------------------------------------------------------------
\* Values of call arguments and payload fields: a type tag and the content.

None_ == [type |-> "none", val |-> << >>]
Self == [type |-> "self", val |-> << >>]
IntVal(n) == [type |-> "int", val |-> <<n>>]
Str(chars) == [type |-> "str", val |-> chars]
BytesOf(content) == [type |-> "bytes", val |-> content]

\* a mapping of names to values (a dict)
EmptyMap == [k \in {} |-> None_]
Put(m, k, v) == [x \in DOMAIN m \cup {k} |-> IF x = k THEN v ELSE m[x]]
MapOf(keys, v) == [k \in keys |-> v]
Merge(m1, m2) == [x \in DOMAIN m1 \cup DOMAIN m2 |-> IF x \in DOMAIN m2 THEN m2[x] ELSE m1[x]]

\* Attachment references: remote file identifiers, local streams, raw bytes, other shapes.
FileIds == {Str(<<1>>), Str(<<2>>), Str(<< >>)}
Streams == {[type |-> "stream", val |-> <<7, 8>>]}
RawBytes == {BytesOf(<<7>>), BytesOf(<< >>)}
OtherShapes == {[type |-> "other", val |-> <<9>>]}
Attachments == FileIds \cup Streams \cup RawBytes \cup OtherShapes

Kinds == {"photo", "audio", "document", "sticker", "video", "voice", "video_note"}

\* the table of _send_file
methods == [kind \in Kinds |->
    CASE kind = "photo" -> "SEND_PHOTO"
      [] kind = "audio" -> "SEND_AUDIO"
      [] kind = "document" -> "SEND_DOCUMENT"
      [] kind = "sticker" -> "SEND_STICKER"
      [] kind = "video" -> "SEND_VIDEO"
      [] kind = "voice" -> "SEND_VOICE"
      [] kind = "video_note" -> "SEND_VIDEO_NOTE"]

\* generate_payload(exclude, **kwargs): the arguments that are set, are not the
\* receiver and are not excluded
generate_payload(locals, exclude) ==
    LET kept == {k \in DOMAIN locals : locals[k] # None_ /\ k # "self" /\ k \notin exclude}
    IN [k \in kept |-> locals[k]]

\* self.request(method, data, files): the Transport request the coroutine makes
request(method, data, files) == [method |-> method, data |-> data, files |-> files]

NoRequest == request("none", EmptyMap, EmptyMap)

\* file.read() of a local stream
StreamRead(file) == BytesOf(file.val)

\* the request _send_file awaits
send_file_as_part(file_type, file, payload) ==
    request(methods[file_type], payload, Put(EmptyMap, file_type, file))

_send_file(file_type, file, payload) ==
    IF file.type = "str"
    THEN request(methods[file_type], Put(payload, file_type, file), EmptyMap)
    ELSE IF file.type = "stream"
    THEN request("SEND_PHOTO", payload, Put(EmptyMap, file_type, StreamRead(file)))
    ELSE IF file.type = "bytes"
    THEN request("SEND_PHOTO", payload, Put(EmptyMap, file_type, file))
    ELSE request("SEND_PHOTO", payload, Put(EmptyMap, file_type, file))

\* the endpoint method of each kind
SendMethod == [kind \in Kinds |->
    CASE kind = "photo" -> "send_photo"
      [] kind = "audio" -> "send_audio"
      [] kind = "document" -> "send_document"
      [] kind = "sticker" -> "send_sticker"
      [] kind = "video" -> "send_video"
      [] kind = "voice" -> "send_voice"
      [] kind = "video_note" -> "send_video_note"]

\* the arguments of send_photo, ..., send_video_note besides chat_id and the attachment
SendOptional(kind) ==
    {"disable_notification", "reply_to_message_id", "reply_markup"}
    \cup (IF kind \in {"photo", "audio", "document", "video", "voice"} THEN {"caption"} ELSE {})
    \cup (IF kind \in {"audio", "video", "voice", "video_note"} THEN {"duration"} ELSE {})
    \cup (IF kind = "audio" THEN {"performer", "title"} ELSE {})
    \cup (IF kind = "video" THEN {"width", "height"} ELSE {})
    \cup (IF kind = "video_note" THEN {"length"} ELSE {})

\* locals() of send_<kind>: `given` are the optional arguments the caller sets
SendLocals(kind, file, given) ==
    Merge(MapOf(SendOptional(kind), None_),
          Merge(MapOf(given \cap SendOptional(kind), IntVal(1)),
                Put(Put(Put(Put(EmptyMap, "self", Self), "chat_id", IntVal(1)), kind, file),
                    "_message_type", Str(<<0>>))))

\* the payload send_<kind> builds and hands to _send_file
SendPayload(kind, file, given) == generate_payload(SendLocals(kind, file, given), {})

\* The endpoint methods that build a payload and await one request, with the
\* arguments a call must give (the optional ones are left unset).
Required == [
    get_updates |-> {}, send_message |-> {"chat_id", "text"},
    forward_message |-> {"chat_id", "from_chat_id", "message_id"},
    send_location |-> {"chat_id", "latitude", "longitude"},
    send_venue |-> {"chat_id", "latitude", "longitude", "title", "address", "foursquare_id"},
    send_contact |-> {"chat_id", "phone_number", "first_name"},
    send_chat_action |-> {"chat_id", "action"},
    get_user_profile_photos |-> {"user_id"}, get_file |-> {"file_id"},
    kick_chat_user |-> {"chat_id", "user_id"}, unban_chat_member |-> {"chat_id", "user_id"},
    leave_chat |-> {"chat_id"}, get_chat |-> {"chat_id"},
    get_chat_administrators |-> {"chat_id"}, get_chat_members_count |-> {"chat_id"},
    get_chat_member |-> {"chat_id", "user_id"},
    answer_callback_query |-> {"callback_query_id"},
    answer_inline_query |-> {"inline_query_id", "results"},
    edit_message_text |-> {"text"}, edit_message_caption |-> {},
    edit_message_reply_markup |-> {}, delete_message |-> {"chat_id", "message_id"},
    send_invoice |-> {"chat_id", "title", "description", "payload", "provider_token",
                      "start_parameter", "currency", "prices"},
    answer_shipping_query |-> {"shipping_query_id", "ok"},
    answer_pre_checkout_query |-> {"pre_checkout_query_id", "ok"},
    send_game |-> {"chat_id", "game_short_name"},
    get_game_high_scores |-> {"user_id"}]

\* get_me, delete_webhook and get_webhook_info send no arguments
NoPayloadMethods == {"get_me", "delete_webhook", "get_webhook_info"}

PayloadMethods == DOMAIN Required

NoCall == [pc |-> "idle", method |-> "none", kind |-> "none", file |-> None_,
           payload |-> EmptyMap, request |-> NoRequest, issued |-> 0, runs |-> 0,
           outcome |-> "none", result |-> "none"]

----------------------------------------------------------------------------
Idle == [pc |-> "idle", session |-> 0, seek |-> FALSE, chunk_size |-> 0,
         fresh |-> FALSE, sink |-> FreshSink, file |-> << >>, body |-> << >>, arrived |-> << >>,
         failure |-> "none", raised |-> "none"]

Init ==
    /\ temp_sessions = << >>
    /\ handles = << >>
    /\ session_closed = FALSE
    /\ connections_limit \in 1..MaxConnectionsLimit
    /\ in_use = [s \in {PoolSession} |-> 0]
    /\ destroyed = FALSE
    /\ dl = [d \in Downloads |-> Idle]
    /\ req = [r \in Requests |-> "idle"]
    /\ api = NoCall

----------------------------------------------------------------------------
\* create_temp_session / destroy_temp_session / __del__

Limit(s) == IF s = PoolSession THEN connections_limit ELSE 1

Track(owner) ==
    /\ handles' = Append(handles, [closed |-> FALSE, closes |-> 0, owner |-> owner])
    /\ temp_sessions' = Append(temp_sessions, NewHandle)
    /\ in_use' = [s \in DOMAIN in_use \cup {NewHandle} |->
                    IF s \in DOMAIN in_use THEN in_use[s] ELSE 0]

UserHandles == {h \in 1..Len(handles) : handles[h].owner = User}

create_temp_session ==
    /\ ~destroyed
    /\ Cardinality(UserHandles) < MaxUserSessions
    /\ Track(User)
    /\ UNCHANGED <<session_closed, connections_limit, destroyed, dl, req, api>>

destroy_temp_session(h) ==
    /\ ~destroyed
    /\ h \in UserHandles
    /\ handles' = DestroyClose(handles, h)
    /\ temp_sessions' = DestroyUntrack(temp_sessions, h)
    /\ UNCHANGED <<session_closed, connections_limit, in_use, destroyed, dl, req, api>>

__del__ ==
    /\ ~destroyed
    /\ handles' = CloseAll(handles, temp_sessions)
    /\ session_closed' = TRUE
    /\ destroyed' = TRUE
    /\ UNCHANGED <<temp_sessions, connections_limit, in_use, dl, req, api>>

----------------------------------------------------------------------------
\* download_file

\* the session whose connector carries the download's GET
DownloadOnPooledSession(d) == PoolSession

DownloadConnector(d) == dl[d].session

\* what the transport library raises for a failure class
TransportException(f) ==
    CASE f = "timeout" -> "TimeoutError"
      [] f = "transport" -> "ClientError"
      [] f = "closed" -> "RuntimeError"
      [] f = "sink" -> "OSError"
      [] f = "open" -> "OSError"
      [] OTHER -> "none"

\* the exception download_file lets out for one raised inside it
RaisedWrapped(exc) ==
    CASE exc = "TimeoutError" -> "DownloadTimeout"
      [] exc = "ClientError" -> "NetworkError"
      [] OTHER -> exc

Raised(exc) == exc

\* dest.write(chunk); dest.flush()
CopyChunkUnflushed(sink, chunk) == SinkWrite(sink, chunk)

CopyChunk(sink, chunk) == SinkFlush(SinkWrite(sink, chunk))

\* if seek: dest.seek(0)
Finalize(sink, seek) == IF seek THEN SinkSeek(sink, 0) ELSE sink

DestSinks == [none |-> FreshSink, sink |-> FreshSink, path |-> FreshSink,
              used_sink |-> [data |-> <<1>>, pending |-> << >>, pos |-> 1]]

DownloadBegin(d, destination, seek, chunk_size, body) ==
    /\ ~destroyed
    /\ dl[d].pc = "idle"
    /\ Track(d)
    /\ dl' = [dl EXCEPT ![d] = [Idle EXCEPT !.pc = "connecting", !.session = NewHandle,
                                           !.seek = seek, !.chunk_size = chunk_size,
                                           !.fresh = (destination # "used_sink"),
                                           !.sink = DestSinks[destination],
                                           !.file = body, !.body = body]]
    /\ UNCHANGED <<session_closed, connections_limit, destroyed, req, api>>

\* open(destination, 'wb') raises: the call leaves before its try block
DownloadOpenFails(d) ==
    /\ ~destroyed
    /\ dl[d].pc = "idle"
    /\ Track(d)
    /\ dl' = [dl EXCEPT ![d] = [Idle EXCEPT !.pc = "done", !.session = NewHandle,
                                           !.failure = "open",
                                           !.raised = Raised(TransportException("open"))]]
    /\ UNCHANGED <<session_closed, connections_limit, destroyed, req, api>>

\* leaving the try block: the finally clause runs destroy_temp_session(session)
ExitFinally(d, rec, holds) ==
    /\ handles' = DestroyClose(handles, dl[d].session)
    /\ temp_sessions' = DestroyUntrack(temp_sessions, dl[d].session)
    /\ in_use' = IF holds
                 THEN [in_use EXCEPT ![DownloadConnector(d)] = in_use[DownloadConnector(d)] - 1]
                 ELSE in_use
    /\ dl' = [dl EXCEPT ![d] = [rec EXCEPT !.pc = "done", !.chunk_size = 0, !.body = << >>]]
    /\ UNCHANGED <<session_closed, connections_limit, destroyed, req, api>>

Fail(d, f) == [dl[d] EXCEPT !.failure = f, !.raised = Raised(TransportException(f))]

DownloadConnect(d) ==
    /\ dl[d].pc = "connecting"
    /\ ~handles[dl[d].session].closed
    /\ in_use[DownloadConnector(d)] < Limit(DownloadConnector(d))
    /\ in_use' = [in_use EXCEPT ![DownloadConnector(d)] = in_use[DownloadConnector(d)] + 1]
    /\ dl' = [dl EXCEPT ![d].pc = "streaming"]
    /\ UNCHANGED <<temp_sessions, handles, session_closed, connections_limit, destroyed, req, api>>

DownloadConnectFails(d, f) ==
    /\ dl[d].pc = "connecting"
    /\ ~handles[dl[d].session].closed
    /\ f \in {"timeout", "transport"}
    /\ ExitFinally(d, Fail(d, f), FALSE)

\* session.get on a session closed under the call raises RuntimeError
DownloadConnectClosed(d) ==
    /\ dl[d].pc = "connecting"
    /\ handles[dl[d].session].closed
    /\ ExitFinally(d, Fail(d, "closed"), FALSE)

DownloadRead(d, n) ==
    /\ dl[d].pc = "streaming"
    /\ ~handles[dl[d].session].closed
    /\ n \in 1..Len(dl[d].body)
    /\ n <= dl[d].chunk_size
    /\ LET chunk == SubSeq(dl[d].body, 1, n)
       IN dl' = [dl EXCEPT ![d].sink = CopyChunk(dl[d].sink, chunk),
                           ![d].body = SubSeq(dl[d].body, n + 1, Len(dl[d].body)),
                           ![d].arrived = Append(dl[d].arrived, chunk)]
    /\ UNCHANGED <<temp_sessions, handles, session_closed, connections_limit, in_use,
                   destroyed, req, api>>

DownloadReadFails(d, f) ==
    /\ dl[d].pc = "streaming"
    /\ ~handles[dl[d].session].closed
    /\ f \in {"timeout", "transport"}
    /\ ExitFinally(d, Fail(d, f), TRUE)

\* the read on a connection closed under the call fails in the transport
DownloadReadClosed(d) ==
    /\ dl[d].pc = "streaming"
    /\ handles[dl[d].session].closed
    /\ ExitFinally(d, Fail(d, "transport"), TRUE)

\* dest.write raises on a chunk that arrived
DownloadWriteFails(d) ==
    /\ dl[d].pc = "streaming"
    /\ ~handles[dl[d].session].closed
    /\ \E n \in 1..Len(dl[d].body) :
        /\ n <= dl[d].chunk_size
        /\ ExitFinally(d, [Fail(d, "sink") EXCEPT
                              !.arrived = Append(dl[d].arrived, SubSeq(dl[d].body, 1, n))],
                       TRUE)

\* the read that returns no bytes ends the loop
DownloadFinish(d) ==
    /\ dl[d].pc = "streaming"
    /\ ~handles[dl[d].session].closed
    /\ dl[d].body = << >>
    /\ ExitFinally(d, [dl[d] EXCEPT !.sink = Finalize(dl[d].sink, dl[d].seek)], TRUE)

----------------------------------------------------------------------------
\* request: one Transport request over a pooled connection of self.session

ReqStart(r) ==
    /\ ~destroyed
    /\ req[r] = "idle"
    /\ req' = [req EXCEPT ![r] = "waiting"]
    /\ UNCHANGED <<temp_sessions, handles, session_closed, connections_limit, in_use,
                   destroyed, dl, api>>

ReqAcquire(r) ==
    /\ req[r] = "waiting"
    /\ ~session_closed
    /\ in_use[PoolSession] < Limit(PoolSession)
    /\ in_use' = [in_use EXCEPT ![PoolSession] = in_use[PoolSession] + 1]
    /\ req' = [req EXCEPT ![r] = "connected"]
    /\ UNCHANGED <<temp_sessions, handles, session_closed, connections_limit, destroyed, dl, api>>

ReqComplete(r) ==
    /\ req[r] = "connected"
    /\ in_use' = [in_use EXCEPT ![PoolSession] = in_use[PoolSession] - 1]
    /\ req' = [req EXCEPT ![r] = "done"]
    /\ UNCHANGED <<temp_sessions, handles, session_closed, connections_limit, destroyed, dl, api>>

----------------------------------------------------------------------------
\* The endpoint methods. One call at a time; `api` keeps the last call.

Others == <<temp_sessions, handles, session_closed, connections_limit, in_use, destroyed, dl, req>>

CanCall == api.pc \in {"idle", "returned"}

\* the call awaits the request `r` it made
Await(m, kind, file, payload, r) ==
    api' = [NoCall EXCEPT !.pc = "awaiting", !.method = m, !.kind = kind, !.file = file,
                          !.payload = payload, !.request = r, !.issued = 1]

\* payload = generate_payload(**locals()); return await self.request(METHOD, payload)
CallEndpoint(m) ==
    /\ CanCall
    /\ m \in PayloadMethods
    /\ LET payload == generate_payload(Put(MapOf(Required[m], IntVal(1)), "self", Self), {})
       IN Await(m, "none", None_, payload, request(m, payload, EmptyMap))
    /\ UNCHANGED Others

CallNoPayload(m) ==
    /\ CanCall
    /\ m \in NoPayloadMethods
    /\ Await(m, "none", None_, EmptyMap, request(m, EmptyMap, EmptyMap))
    /\ UNCHANGED Others

\* set_webhook: the certificate is excluded from the payload and sent as a part
set_webhook(certificate) ==
    /\ CanCall
    /\ LET locals == Put(Put(Put(EmptyMap, "self", Self), "url", Str(<<1>>)),
                         "certificate", certificate)
           payload == generate_payload(locals, {"certificate"})
       IN Await("set_webhook", "none", None_, payload,
                IF certificate # None_
                THEN request("set_webhook", payload, Put(EmptyMap, "certificate", certificate))
                ELSE request("set_webhook", payload, EmptyMap))
    /\ UNCHANGED Others

\* send_photo, send_audio, send_document, send_sticker, send_video, send_voice, send_video_note
send_attachment(kind, file, given) ==
    /\ CanCall
    /\ LET payload == SendPayload(kind, file, given)
       IN Await(SendMethod[kind], kind, file, payload, _send_file(kind, file, payload))
    /\ UNCHANGED Others

\* set_game_score: raw = self.request(...) is not awaited; the coroutine is returned
set_game_score ==
    /\ CanCall
    /\ LET payload == generate_payload(Put(MapOf({"user_id", "score"}, IntVal(1)), "self", Self), {})
       IN api' = [NoCall EXCEPT !.pc = "returned", !.method = "set_game_score",
                                !.payload = payload, !.result = "coroutine"]
    /\ UNCHANGED Others

Outcomes == {"True", "dict", "ApiError", "NetworkError"}

\* the awaited Transport request runs to completion; the method returns its
\* result value or raises its failure
TransportCompletes(outcome) ==
    /\ api.pc = "awaiting"
    /\ api' = [api EXCEPT !.pc = "returned", !.runs = api.runs + 1, !.outcome = outcome,
                          !.result = outcome]
    /\ UNCHANGED Others

----------------------------------------------------------------------------
\* The downloads of the two concurrency specifications fetch a one-byte file
\* into a fresh in-memory sink: the session bookkeeping does not read the bytes.
SmallBodies == {<<0>>}

SessionSteps ==
    \/ create_temp_session
    \/ \E h \in 1..Len(handles) : destroy_temp_session(h)
    \/ __del__

DownloadSteps(ds, destinations, seeks, chunk_sizes, bodies, failures) ==
    \/ \E d \in ds, destination \in destinations, seek \in seeks,
          chunk_size \in chunk_sizes, body \in bodies :
            DownloadBegin(d, destination, seek, chunk_size, body)
    \/ \E d \in ds : DownloadConnect(d)
    \/ \E d \in ds, n \in chunk_sizes : DownloadRead(d, n)
    \/ \E d \in ds, f \in failures : DownloadReadFails(d, f)
    \/ \E d \in ds : DownloadFinish(d)

\* the failures outside the read loop
DownloadFailureSteps(ds, failures) ==
    \/ \E d \in ds : DownloadOpenFails(d)
    \/ \E d \in ds, f \in failures : DownloadConnectFails(d, f)

\* the failures of a download whose session __del__ closed
DownloadClosedSteps(ds) ==
    \/ \E d \in ds : DownloadConnectClosed(d)
    \/ \E d \in ds : DownloadReadClosed(d)

RequestSteps ==
    \/ \E r \in Requests : ReqStart(r)
    \/ \E r \in Requests : ReqAcquire(r)
    \/ \E r \in Requests : ReqComplete(r)

\* Concurrent downloads, direct create/destroy calls and the client's destruction.
Next ==
    \/ SessionSteps
    \/ DownloadSteps(Downloads, {"none"}, {TRUE}, {1}, SmallBodies, {"timeout"})
    \/ DownloadFailureSteps(Downloads, {"timeout"})
    \/ DownloadClosedSteps(Downloads)

Spec == Init /\ [][Next]_vars

\* Concurrent downloads beside Transport requests on the pooled session.
NextPool ==
    \/ DownloadSteps(Downloads, {"none"}, {TRUE}, {1}, SmallBodies, {"timeout"})
    \/ RequestSteps

SpecPool == Init /\ [][NextPool]_vars

\* One download of every file, destination, chunk size and failure.
NextCopy ==
    \/ DownloadSteps({1}, DOMAIN DestSinks, BOOLEAN, 1..MaxChunkSize, Bodies,
                     {"timeout", "transport"})
    \/ DownloadFailureSteps({1}, {"timeout", "transport"})
    \/ \E d \in {1} : DownloadWriteFails(d)

SpecCopy == Init /\ [][NextCopy]_vars

\* The endpoint methods, called one after another.
NextApi ==
    \/ \E m \in PayloadMethods : CallEndpoint(m)
    \/ \E m \in NoPayloadMethods : CallNoPayload(m)
    \/ \E certificate \in {None_, BytesOf(<<7>>)} : set_webhook(certificate)
    \/ \E kind \in Kinds, file \in Attachments, given \in {{}, {"caption"}} :
            send_attachment(kind, file, given)
    \/ set_game_score
    \/ \E outcome \in Outcomes : TransportCompletes(outcome)

SpecApi == Init /\ [][NextApi]_vars

----------------------------------------------------------------------------
\* The claims.

InFlight == {d \in Downloads : dl[d].pc \in {"connecting", "streaming"}}
Exited == {d \in Downloads : dl[d].pc = "done"}
Tracked == SeqRange(temp_sessions)
SentAttachment == api.kind \in Kinds /\ api.pc \in {"awaiting", "returned"}

\* C1: for each of the seven kinds and every non-string attachment, _send_file
\* calls Transport with the endpoint the kind-to-endpoint table assigns to the kind.
C1_NonStringRoutedByKind ==
    (SentAttachment /\ api.file.type # "str") => api.request.method = methods[api.kind]

\* C2: on every exit of download_file taken after the temp session was created,
\* the session is closed and no longer in the tracked list.
C2_HandleReleasedOnEveryExit ==
    \A d \in Exited : handles[dl[d].session].closed /\ dl[d].session \notin Tracked

C4_OneRequestOneOutcome ==
    api.pc = "returned" =>
        /\ api.runs = 1
        /\ api.outcome \in Outcomes
        /\ api.result = api.outcome

\* C5: every temp session created is closed at most once, is closed exactly when
\* its one close() ran, and none is open once the client has been destroyed.
C5_ClosedExactlyOnce ==
    \A h \in 1..Len(handles) :
        /\ handles[h].closes <= 1
        /\ handles[h].closed <=> handles[h].closes = 1
        /\ destroyed => handles[h].closed

C5_Witness ==
    /\ destroyed
    /\ \E h \in UserHandles : h \notin Tracked /\ handles[h].closes = 1
    /\ \E d \in Exited : dl[d].failure = "closed" /\ handles[dl[d].session].closes = 1
    /\ \E d \in Exited : dl[d].failure = "open" /\ handles[dl[d].session].closes = 1

\* C6: a download that finishes inside its try block closes and untracks the
\* session it created and no other: the sessions of downloads in flight stay
\* tracked (and open while the client lives), every tracked session is a direct
\* one, one of a download in flight or one a failed open() left behind, and with
\* no download in flight or left by a failed open() the tracked sessions are
\* the direct ones, as before the calls.
C6_DownloadsReleaseOnlyTheirOwn ==
    LET finished == {d \in Exited : dl[d].failure # "open"}
        leftOpen == {d \in Exited : dl[d].failure = "open"}
    IN /\ \A d \in InFlight :
            /\ dl[d].session \in Tracked
            /\ ~destroyed => ~handles[dl[d].session].closed
       /\ \A d \in finished :
            handles[dl[d].session].closed /\ dl[d].session \notin Tracked
       /\ \A d, e \in InFlight \cup Exited : d # e => dl[d].session # dl[e].session
       /\ Len(temp_sessions) = Cardinality(UserHandles \cap Tracked)
                               + Cardinality(InFlight) + Cardinality(leftOpen)
       /\ (InFlight = {} /\ leftOpen = {}) => Tracked = UserHandles \cap Tracked

C6_Witness ==
    /\ ~destroyed
    /\ \E d \in Exited : dl[d].failure = "timeout" /\ dl[d].session = 1
    /\ \E d \in InFlight : dl[d].session = 2 /\ dl[d].pc = "streaming"
    /\ \E h \in UserHandles : h \in Tracked

\* C7: a successful download into a fresh sink leaves in it the chunks that
\* arrived, in order, which are the whole file; every chunk is written and
\* flushed before the next read; the cursor is at 0 when seek is true.
C7_SinkHoldsChunksInOrder ==
    \A d \in Downloads : dl[d].fresh =>
        /\ dl[d].pc = "streaming" =>
            dl[d].sink.data = Concat(dl[d].arrived) /\ dl[d].sink.pending = << >>
        /\ (dl[d].pc = "done" /\ dl[d].failure = "none") =>
            /\ dl[d].sink.data = Concat(dl[d].arrived)
            /\ dl[d].sink.data = dl[d].file
            /\ dl[d].sink.pending = << >>
            /\ \A i \in 1..Len(dl[d].arrived) : dl[d].arrived[i] # << >>
            /\ dl[d].seek => dl[d].sink.pos = 0

C7_Witness ==
    \E d \in Exited :
        /\ dl[d].fresh /\ dl[d].failure = "none" /\ dl[d].seek
        /\ Len(dl[d].arrived) = 2
        /\ dl[d].sink.data = <<0, 1>>
        /\ dl[d].sink.pos = 0

\* C8: for every kind and every attachment that is a file-identifier string,
\* _send_file makes one Transport call, without multipart parts, to the kind's
\* endpoint, and the payload's kind field is the identifier.
C8_IdentifierSentInPayload ==
    (SentAttachment /\ api.file.type = "str") =>
        /\ api.issued = 1
        /\ api.pc = "returned" => api.runs = 1
        /\ api.request.files = EmptyMap
        /\ api.request.method = methods[api.kind]
        /\ api.kind \in DOMAIN api.request.data
        /\ api.request.data[api.kind] = api.file

C8_Witness ==
    /\ api.pc = "returned" /\ api.kind = "audio" /\ api.file = Str(<<2>>)
    /\ api.request.method = "SEND_AUDIO"
    /\ api.request.data["audio"] = Str(<<2>>)

\* C9: downloads hold no connection of the pooled session: the pooled
\* connections in use are those of Transport requests, and a waiting request
\* can take one whenever fewer requests than the limit hold one.
C9_DownloadsLeavePoolFree ==
    LET connected == {r \in Requests : req[r] = "connected"}
    IN /\ in_use[PoolSession] = Cardinality(connected)
       /\ \A r \in Requests :
            (req[r] = "waiting" /\ Cardinality(connected) < connections_limit)
                => ENABLED ReqAcquire(r)

C9_Witness ==
    /\ \A d \in Downloads : dl[d].pc = "streaming"
    /\ \E r \in Requests : req[r] = "waiting"
    /\ \E r \in Requests : req[r] = "connected"
    /\ connections_limit > 1

\* C10: the payload an attachment-bearing endpoint hands to _send_file has no
\* attachment field, so a non-string attachment reaches Transport as the
\* multipart part only.
C10_PayloadOmitsAttachment ==
    SentAttachment =>
        /\ api.kind \notin DOMAIN api.payload
        /\ api.file.type # "str" => api.kind \notin DOMAIN api.request.data

====
